---- MODULE Spec2Model ----
(***************************************************************************)
(* Model of lib/apple.js: the receipt verification flow                    *)
(* (validatePurchase: tryProd, trySandbox, done, handleResponse) and the   *)
(* receipt normaliser (getPurchaseData, getSubscriptionExpireDate).        *)
(*                                                                         *)
(* JavaScript values are modelled as follows.                              *)
(*   - an object is a record; a key the object does not have is a field    *)
(*     the record does not have (so obj.key === undefined is               *)
(*     "key" \notin DOMAIN obj);                                            *)
(*   - null / undefined is the record Null;                                *)
(*   - an array is a sequence;                                             *)
(*   - a numeric string is a sequence of one-character strings, and        *)
(*     parseInt is computed over it; NaN is the record NaN, a number n is  *)
(*     the record [v |-> n].                                               *)
(***************************************************************************)
EXTENDS Integers, Sequences, FiniteSets, TLC

\* ------------------------------------------------------------------------
\* JavaScript objects

Null == [null |-> TRUE]

IsNull(x) == "null" \in DOMAIN x

Has(obj, key) == key \in DOMAIN obj

\* obj[key] = value
Put(obj, key, value) ==
    [k \in (DOMAIN obj) \cup {key} |-> IF k = key THEN value ELSE obj[k]]

\* new Error(msg)
Error(msg) == [message |-> msg]

\* ------------------------------------------------------------------------
\* Constants of the module

\* constants.VALIDATION.SUCCESS, constants.VALIDATION.POSSIBLE_HACK and
\* constants.SERVICES.APPLE (lib/../constants)
SUCCESS == 0

POSSIBLE_HACK == 2

APPLE == "apple"

errorMap ==
    (21000 :> "The App Store could not read the JSON object you provided.") @@
    (21002 :> "The data in the receipt-data property was malformed.") @@
    (21003 :> "The receipt could not be authenticated.") @@
    (21004 :> "The shared secret you provided does not match the shared secret on file for your account.") @@
    (21005 :> "The receipt server is not currently available.") @@
    (21006 :> "This receipt is valid but the subscription has expired. When this status code is returned to your server, the receipt data is also decoded and returned as part of the response.") @@
    (21007 :> "This receipt is a sandbox receipt, but it was sent to the production service for verification.") @@
    (21008 :> "This receipt is a production receipt, but it was sent to the sandbox service for verification.") @@
    (2 :> "The receipt is valid, but purchased nothing.")

sandboxHost == "sandbox.itunes.apple.com"

liveHost == "buy.itunes.apple.com"

path == "/verifyReceipt"

prodPath == <<"https://", liveHost, path>>

sandboxPath == <<"https://", sandboxHost, path>>

\* errorMap[status] || fallback, for an object that may lack the status key
MessageOr(obj, fallback) ==
    IF Has(obj, "status") /\ obj.status \in DOMAIN errorMap
    THEN errorMap[obj.status]
    ELSE fallback

\* ------------------------------------------------------------------------
\* State

VARIABLES
    pc,             \* position of the validatePurchase call: "idle", "tryProd",
                    \* "trySandbox" (a request is in flight), "done", "thrown"
    config,         \* module variable config
    envPassword,    \* process.env.APPLE_IAP_PASSWORD ("" when it is not set)
    args,           \* the arguments secret and receipt of the validatePurchase call
    content,        \* request body built by validatePurchase
    requests,       \* requests handed to send(), in order: [url, body]
    responses,      \* transport answers received so far: [url, error, data]
    validatedData,  \* closure variable validatedData
    isValid,        \* closure variable isValid
    cbCalls,        \* invocations of the caller's cb: [error, data]
    list,           \* getPurchaseData: working list
    purchase,       \* getPurchaseData: the purchase argument
    options,        \* getPurchaseData: the options argument
    i,              \* getPurchaseData: loop index (0-based, as in the source)
    tids,           \* getPurchaseData: map original_transaction_id -> {time, index}
    data,           \* getPurchaseData: output array
    from,           \* for each slot of data, the position in list of the item
                    \* whose record the slot holds
    now,            \* the clock read by Date.now()
    gpc,            \* position of the getPurchaseData call: "idle", "loop", "returned"
    calls,          \* concurrent validatePurchase calls: for each call its
                    \* position, arguments, requests, responses and cb invocations
    cells           \* the closure variables content, validatedData and isValid
                    \* of the concurrent calls, by closure

vvars == <<pc, config, envPassword, args, content, requests, responses, validatedData,
          isValid, cbCalls>>

gvars == <<list, purchase, options, i, tids, data, from, now, gpc>>

cvars == <<calls, cells>>

vars == <<vvars, gvars, cvars>>

\* ------------------------------------------------------------------------
\* Inputs of validatePurchase: what the transport can hand to send's callback

\* Status codes the endpoints answer with: success, the two wrong-environment
\* codes, a documented error, an undocumented one, and a negative one.
Statuses == {0, 21002, 21007, 21003, 99999, -1}

InAppItem == [original_transaction_id |-> "T1", transaction_id |-> "t1"]

Receipts ==
    { [bundle_id |-> "com.x"],
      [bundle_id |-> "com.x", in_app |-> <<>>],
      [bundle_id |-> "com.x", in_app |-> <<InAppItem>>] }

\* The parsed JSON body an endpoint can deliver: nothing, an object without a
\* status, an object with a status, an object with a status and a receipt.
\* environment records which endpoint produced the body.
Bodies(env) ==
    {Null} \cup {[environment |-> env]}
    \cup {[status |-> s, environment |-> env] : s \in Statuses}
    \cup {[status |-> s, receipt |-> r, environment |-> env] :
             s \in Statuses, r \in Receipts}

TransportError == [message |-> "ETIMEDOUT", code |-> "ETIMEDOUT"]

TransportErrors == {Null, TransportError}

Secrets == {"", "dynamic"}

ReceiptBlobs == {"receiptA", "receiptB"}

\* the values readConfig is called with
Configs ==
    {Null, [verbose |-> TRUE], [applePassword |-> "configured"],
     [appleOther |-> "x"], [applePassword |-> "", appleOther |-> "x"]}

\* the values of the environment variable APPLE_IAP_PASSWORD
EnvValues == {"", "fromEnv"}

\* ------------------------------------------------------------------------
\* validatePurchase

\* Variant of buildContent: the configured password overrides the secret
MutBuildContent(secret, receipt) ==
    LET c0 == ("receipt-data" :> receipt)
        c1 == IF secret # "" THEN Put(c0, "password", secret) ELSE c0
    IN IF ~IsNull(config) /\ Has(config, "applePassword")
          /\ config.applePassword # ""
       THEN Put(c1, "password", config.applePassword)
       ELSE c1

\* lines 82-92: the request body
buildContent(secret, receipt) ==
    LET c0 == ("receipt-data" :> receipt)
        c1 == IF ~IsNull(config) /\ Has(config, "applePassword")
                 /\ config.applePassword # ""
              THEN Put(c0, "password", config.applePassword)
              ELSE c0
    IN IF secret # "" THEN Put(c1, "password", secret) ELSE c1

\* Variant of transportFailure: the status of the body is not looked at
MutTransportFailure(d) == [status |-> 1, message |-> "Unknown"]

\* lines 104-108 and 146-150: the partial result on a transport failure
\*   status = data ? data.status : 1;
\*   validatedData = { status: status, message: errorMap[status] || 'Unknown' }
transportFailure(d) ==
    IF IsNull(d) THEN [status |-> 1, message |-> MessageOr([status |-> 1], "Unknown")]
    ELSE IF Has(d, "status")
         THEN [status |-> d.status, message |-> MessageOr(d, "Unknown")]
         ELSE [message |-> "Unknown"]

\* lines 114-120 and 155-161: the partial result on an Apple error status
appleFailure(d) == [status |-> d.status, message |-> MessageOr(d, "Unknown")]

\* Variant of prodIsError: the 21002 exclusion is forgotten
MutProdIsError(d) ==
    Has(d, "status") /\ d.status > 0 /\ d.status # 21007

\* line 112
prodIsError(d) ==
    Has(d, "status") /\ d.status > 0 /\ d.status # 21007 /\ d.status # 21002

\* line 125
prodWantsSandbox(d) ==
    Has(d, "status") /\ (d.status = 21007 \/ d.status = 21002)

\* line 153
sandboxIsError(d) == Has(d, "status") /\ d.status > 0

\* Variant of prodValidated: isValid is not set
MutProdValidated(d, iv) ==
    [out |-> "next", err |-> Null, validatedData |-> d, isValid |-> iv]

\* lines 128-132: production validated
prodValidated(d, iv) ==
    [out |-> "next", err |-> Null, validatedData |-> d, isValid |-> TRUE]

\* lines 164-167: sandbox validated
sandboxValidated(d, iv) ==
    [out |-> "next", err |-> Null, validatedData |-> d, isValid |-> iv]

\* lines 98-133: the callback tryProd gives to send.  The result says how the
\* callback ended (out: "next" when it called next, "throw" when it raised),
\* the argument of next, and the closure variables afterwards.
tryProdCallback(error, d, vd, iv) ==
    IF ~IsNull(error)
    THEN [out |-> "next", err |-> error,
          validatedData |-> transportFailure(d), isValid |-> iv]
    ELSE IF IsNull(d)
    THEN [out |-> "throw", err |-> Null, validatedData |-> vd, isValid |-> iv]
    ELSE IF prodIsError(d)
    THEN [out |-> "next", err |-> Error(MessageOr(d, "Unknown")),
          validatedData |-> appleFailure(d), isValid |-> iv]
    ELSE IF prodWantsSandbox(d)
    THEN [out |-> "next", err |-> Null, validatedData |-> vd, isValid |-> iv]
    ELSE prodValidated(d, iv)

\* lines 141-168: the callback trySandbox gives to send
trySandboxCallback(error, d, vd, iv) ==
    IF ~IsNull(error)
    THEN [out |-> "next", err |-> error,
          validatedData |-> transportFailure(d), isValid |-> iv]
    ELSE IF IsNull(d)
    THEN [out |-> "throw", err |-> Null, validatedData |-> vd, isValid |-> iv]
    ELSE IF sandboxIsError(d)
    THEN [out |-> "next", err |-> Error(MessageOr(d, "Unknown")),
          validatedData |-> appleFailure(d), isValid |-> iv]
    ELSE sandboxValidated(d, iv)

\* Variant of emptyPurchase: the negation of .length is forgotten
MutEmptyPurchase(receipt) == Has(receipt, "in_app") /\ Len(receipt.in_app) # 0

\* line 252: data.receipt[REC_KEYS.IN_APP] && !data.receipt[REC_KEYS.IN_APP].length
emptyPurchase(receipt) == Has(receipt, "in_app") /\ Len(receipt.in_app) = 0

\* lines 249-275.  The result holds the object after the function's writes to
\* it, the invocations of cb it made, and whether it raised.
handleResponse(d) ==
    LET d1 == Put(d, "service", APPLE) IN
    IF Has(d1, "status") /\ d1.status = SUCCESS
    THEN IF ~Has(d1, "receipt")
         THEN [thrown |-> TRUE, data |-> d1, calls |-> <<>>]
         ELSE IF emptyPurchase(d1.receipt)
         THEN LET d2 == Put(d1, "status", POSSIBLE_HACK)
                  d3 == Put(d2, "message", errorMap[POSSIBLE_HACK])
              IN [thrown |-> FALSE, data |-> d3,
                  calls |-> <<[error |-> Error("failed to validate for empty purchased list"),
                               data |-> d3]>>]
         ELSE [thrown |-> FALSE, data |-> d1,
               calls |-> <<[error |-> Null, data |-> d1]>>]
    ELSE LET d2 == Put(d1, "message", MessageOr(d1, "Unkown"))
         IN [thrown |-> FALSE, data |-> d2,
             calls |-> <<[error |-> Error("failed to validate purchase"), data |-> d2]>>]

\* lines 171-176
done(error, vd) ==
    IF ~IsNull(error)
    THEN [thrown |-> FALSE, data |-> vd, calls |-> <<[error |-> error, data |-> vd]>>]
    ELSE handleResponse(vd)

\* lines 178-181
tasks == <<"tryProd", "trySandbox">>

\* async.series(tasks, done): what runs when task k calls next(error)
series(k, error) ==
    IF ~IsNull(error) \/ k = Len(tasks) THEN "done" ELSE tasks[k + 1]

\* ------------------------------------------------------------------------
\* Actions of validatePurchase

\* send(url, content, cb): the request is handed to the transport
send(url, body) == requests' = Append(requests, [url |-> url, body |-> body])

\* The call ends: done ran (and handleResponse, when there was no error).
runDone(error, vd, iv) ==
    LET r == done(error, vd) IN
    /\ pc' = IF r.thrown THEN "thrown" ELSE "done"
    /\ validatedData' = r.data
    /\ isValid' = iv
    /\ cbCalls' = cbCalls \o r.calls
    /\ UNCHANGED requests

\* The callback raised: nothing after the raising statement runs.
runThrow(r) ==
    /\ pc' = "thrown"
    /\ validatedData' = r.validatedData
    /\ isValid' = r.isValid
    /\ UNCHANGED <<cbCalls, requests>>

\* Variant of trySandbox: the request goes to the Production URL again
MutTrySandbox(vd, iv) ==
    IF iv
    THEN runDone(Null, vd, iv)
    ELSE /\ send(prodPath, content)
         /\ pc' = "trySandbox"
         /\ validatedData' = vd
         /\ isValid' = iv
         /\ UNCHANGED cbCalls

\* lines 136-140: trySandbox is entered
trySandbox(vd, iv) ==
    IF iv
    THEN runDone(Null, vd, iv)
    ELSE /\ send(sandboxPath, content)
         /\ pc' = "trySandbox"
         /\ validatedData' = vd
         /\ isValid' = iv
         /\ UNCHANGED cbCalls

\* lines 76-97 and 182: the call builds the request body and async.series
\* starts tryProd, which sends the Production request.
validatePurchase(secret, receipt) ==
    /\ pc = "idle"
    /\ content' = buildContent(secret, receipt)
    /\ send(prodPath, content')
    /\ pc' = "tryProd"
    /\ args' = [secret |-> secret, receipt |-> receipt]
    /\ UNCHANGED <<config, envPassword, responses, validatedData, isValid, cbCalls>>
    /\ UNCHANGED <<gvars, cvars>>

\* The transport answers the Production request: tryProd's callback runs, and
\* with it whatever next() starts.
ProdResponse(error, d) ==
    /\ pc = "tryProd"
    /\ responses' = Append(responses, [url |-> prodPath, error |-> error, data |-> d])
    /\ LET r == tryProdCallback(error, d, validatedData, isValid) IN
         IF r.out = "throw" THEN runThrow(r)
         ELSE IF series(1, r.err) = "done"
         THEN runDone(r.err, r.validatedData, r.isValid)
         ELSE trySandbox(r.validatedData, r.isValid)
    /\ UNCHANGED <<config, envPassword, args, content>>
    /\ UNCHANGED <<gvars, cvars>>

\* The transport answers the Sandbox request.
SandboxResponse(error, d) ==
    /\ pc = "trySandbox"
    /\ responses' = Append(responses, [url |-> sandboxPath, error |-> error, data |-> d])
    /\ LET r == trySandboxCallback(error, d, validatedData, isValid) IN
         IF r.out = "throw" THEN runThrow(r)
         ELSE runDone(r.err, r.validatedData, r.isValid)
    /\ UNCHANGED <<config, envPassword, args, content>>
    /\ UNCHANGED <<gvars, cvars>>

GInit ==
    /\ list = <<>>
    /\ purchase = Null
    /\ options = Null
    /\ i = 0
    /\ tids = <<>>
    /\ data = <<>>
    /\ from = <<>>
    /\ now = 0
    /\ gpc = "idle"

\* line 33: the key starts with "apple"
isValidConfigKey(key) == key \in {"applePassword", "appleOther"}

\* an object without keys
EmptyObject == [k \in {} |-> TRUE]

\* lines 45-60: the value readConfig leaves in config
appleConfig(configIn) ==
    LET keys == {k \in DOMAIN configIn : isValidConfigKey(k)}
    IN IF keys = {} THEN Null ELSE [k \in keys |-> configIn[k]]

\* config && config.applePassword
hasPassword(c) == ~IsNull(c) /\ Has(c, "applePassword") /\ c.applePassword # ""

\* Variant of setupConfig: the test for a configured password is missing
MutSetupConfig(c, e) ==
    IF e # ""
    THEN Put(IF IsNull(c) THEN EmptyObject ELSE c, "applePassword", e)
    ELSE c

\* lines 64-71: the value setup leaves in config
setupConfig(c, e) ==
    IF ~hasPassword(c) /\ e # ""
    THEN Put(IF IsNull(c) THEN EmptyObject ELSE c, "applePassword", e)
    ELSE c

\* lines 36-61
readConfig(configIn) ==
    /\ config' = IF IsNull(configIn) THEN config ELSE appleConfig(configIn)
    /\ UNCHANGED <<pc, envPassword, args, content, requests, responses, validatedData,
                   isValid, cbCalls>>
    /\ UNCHANGED <<gvars, cvars>>

\* lines 63-74
setup ==
    /\ config' = setupConfig(config, envPassword)
    /\ UNCHANGED <<pc, envPassword, args, content, requests, responses, validatedData,
                   isValid, cbCalls>>
    /\ UNCHANGED <<gvars, cvars>>

Init ==
    /\ pc = "idle"
    /\ config = Null
    /\ envPassword \in EnvValues
    /\ args = Null
    /\ content = Null
    /\ requests = <<>>
    /\ responses = <<>>
    /\ validatedData = Null
    /\ isValid = FALSE
    /\ cbCalls = <<>>
    /\ GInit
    /\ calls = <<>>
    /\ cells = <<>>

Next ==
    \/ \E configIn \in Configs : readConfig(configIn)
    \/ setup
    \/ \E secret \in Secrets, receipt \in ReceiptBlobs : validatePurchase(secret, receipt)
    \/ \E error \in TransportErrors, d \in Bodies("Production") : ProdResponse(error, d)
    \/ \E error \in TransportErrors, d \in Bodies("Sandbox") : SandboxResponse(error, d)

Spec == Init /\ [][Next]_vars

\* ------------------------------------------------------------------------
\* JavaScript numbers and parseInt

NaN == [nan |-> TRUE]

Num(n) == [v |-> n]

IsNaN(x) == "nan" \in DOMAIN x

\* if (x): a number is truthy unless it is 0 or NaN
Truthy(x) == ~IsNaN(x) /\ x.v # 0

\* a < b: false when either side is NaN
LessThan(a, b) == ~IsNaN(a) /\ ~IsNaN(b) /\ a.v < b.v

DigitValue ==
    ("0" :> 0) @@ ("1" :> 1) @@ ("2" :> 2) @@ ("3" :> 3) @@ ("4" :> 4) @@
    ("5" :> 5) @@ ("6" :> 6) @@ ("7" :> 7) @@ ("8" :> 8) @@ ("9" :> 9)

\* the value of the longest prefix of decimal digits of the characters s,
\* continuing from acc with seen digits read; NaN when there is no digit
RECURSIVE ParseDigits(_, _, _)
ParseDigits(s, acc, seen) ==
    IF s # <<>> /\ Head(s) \in DOMAIN DigitValue
    THEN ParseDigits(Tail(s), 10 * acc + DigitValue[Head(s)], TRUE)
    ELSE IF seen THEN Num(acc) ELSE NaN

\* parseInt(s, 10) of a string given as its characters
parseInt(s) ==
    IF s # <<>> /\ Head(s) = "-"
    THEN LET m == ParseDigits(Tail(s), 0, FALSE)
         IN IF IsNaN(m) THEN NaN ELSE Num(0 - m.v)
    ELSE IF s # <<>> /\ Head(s) = "+"
    THEN ParseDigits(Tail(s), 0, FALSE)
    ELSE ParseDigits(s, 0, FALSE)

\* parseInt(obj[key], 10): a missing key reads undefined, which parses to NaN
parseIntField(obj, key) == IF Has(obj, key) THEN parseInt(obj[key]) ELSE NaN

\* if (obj[key]) for a string field: missing and the empty string are falsy
TruthyField(obj, key) == Has(obj, key) /\ obj[key] # <<>>

\* ------------------------------------------------------------------------
\* getPurchaseData

\* lines 239-247
getSubscriptionExpireDate(obj) ==
    IF TruthyField(obj, "expires_date_ms")
    THEN parseInt(obj.expires_date_ms)
    ELSE IF TruthyField(obj, "expires_date")
    THEN parseInt(obj.expires_date)
    ELSE Num(0)

\* obj[key], undefined (Null) when the key is missing
Field(obj, key) == IF Has(obj, key) THEN obj[key] ELSE Null

\* Variant of isExpired: > in place of >=
MutIsExpired(opts, exp, t) ==
    /\ ~IsNull(opts)
    /\ Has(opts, "ignoreExpired")
    /\ opts.ignoreExpired
    /\ Truthy(exp)
    /\ t - exp.v > 0

\* line 205: options && options.ignoreExpired && exp && Date.now() - exp >= 0
isExpired(opts, exp, t) ==
    /\ ~IsNull(opts)
    /\ Has(opts, "ignoreExpired")
    /\ opts.ignoreExpired
    /\ Truthy(exp)
    /\ t - exp.v >= 0

\* line 205: whether the condition gets as far as calling Date.now()
readsClock(opts, exp) ==
    /\ ~IsNull(opts)
    /\ Has(opts, "ignoreExpired")
    /\ opts.ignoreExpired
    /\ Truthy(exp)

\* line 210: tids[tid] && tids[tid].time < pdate
isLater(map, tid, pdate) == tid \in DOMAIN map /\ LessThan(map[tid].time, pdate)

MutSlotFor(map, tid, pdate, arr) ==
    IF isLater(map, tid, pdate) THEN map[tid].index ELSE Len(arr) + 1

\* lines 203, 210-213: the slot the record is written to
slotFor(map, tid, pdate, arr) ==
    IF isLater(map, tid, pdate) THEN map[tid].index ELSE Len(arr)

\* line 215: tids[tid] = { time: pdate, index: data.length }
mapEntry(map, tid, pdate, arr) == [time |-> pdate, index |-> Len(arr)]

\* lines 216-223: the record of an item
recordOf(receipt, item, exp) ==
    [bundleId |-> Field(receipt, "bundle_id"),
     transactionId |-> Field(item, "transaction_id"),
     productId |-> Field(item, "product_id"),
     purchaseDate |-> Field(item, "original_purchase_date_ms"),
     quantity |-> parseIntField(item, "quantity"),
     expirationDate |-> exp]

\* a slot of an array that was never written
Hole == [hole |-> TRUE]

\* arr[index] = value for a 0-based index: a write past the end leaves holes
WriteAt(arr, index, value) ==
    LET n == IF index + 1 > Len(arr) THEN index + 1 ELSE Len(arr)
    IN [k \in 1..n |-> IF k = index + 1 THEN value
                       ELSE IF k <= Len(arr) THEN arr[k] ELSE Hole]

\* lines 194-197: the working list.  latest_receipt_info is [array |-> list]
\* when it is an array and [other |-> value] when it is anything else.
workingList(p) ==
    IF Has(p, "latest_receipt_info") /\ Has(p.latest_receipt_info, "array")
    THEN p.receipt.in_app \o p.latest_receipt_info.array
    ELSE p.receipt.in_app

\* ------------------------------------------------------------------------
\* Inputs of getPurchaseData

\* longest working list of the deduplication inputs
MaxLen == 4

\* longest working list of the expiry inputs
MaxExpiryLen == 2

\* the readings Date.now() can give, in milliseconds
Times == {199, 200}

ms100 == <<"1", "0", "0">>

ms200 == <<"2", "0", "0">>

ms300 == <<"3", "0", "0">>

ms900 == <<"9", "0", "0">>

Item(tid, pd) ==
    [original_transaction_id |-> tid,
     transaction_id |-> <<tid, pd>>,
     product_id |-> "p1",
     original_purchase_date_ms |-> ms100,
     purchase_date_ms |-> pd,
     quantity |-> <<"2">>]

\* Items that exercise the deduplication: one transaction bought at three
\* dates, another at two, and a subscription item of each that expires at 200.
DedupItems ==
    {Item("T1", pd) : pd \in {ms100, ms200, ms300}}
    \cup {Item("T2", pd) : pd \in {ms100, ms200}}
    \cup {Put(Item("T1", ms200), "expires_date_ms", ms200),
          Put(Item("T2", ms100), "expires_date_ms", ms200)}

\* Items that exercise the expiry rule: no expiry field, expiry "0", a
\* negative expiry, one at the clock's edge, one in the future, one that is
\* not a number, and one given by expires_date instead of expires_date_ms.
ExpiryItems ==
    {Item("T1", pd) : pd \in {ms100, ms200}}
    \cup {Put(Item("T1", pd), "expires_date_ms", e) :
             pd \in {ms100, ms200},
             e \in {<<"0">>, <<"-", "5">>, ms200, ms900, <<"x">>}}
    \cup {Put(Item("T1", pd), "expires_date", ms200) : pd \in {ms100, ms200}}

SeqsUpTo(S, n) == UNION {[1..k -> S] : k \in 0..n}

\* a modern payload whose working list is w, its tail from position k + 1 on
\* delivered in latest_receipt_info
ModernPurchase(w, k) ==
    LET p == [receipt |-> [bundle_id |-> "com.x", in_app |-> SubSeq(w, 1, k)]]
    IN IF k = Len(w) THEN p
       ELSE Put(p, "latest_receipt_info", [array |-> SubSeq(w, k + 1, Len(w))])

LegacyReceipt ==
    [bundle_id |-> "com.x", transaction_id |-> "1", product_id |-> "p1",
     original_purchase_date_ms |-> ms100, quantity |-> <<"2">>]

Purchases ==
    {ModernPurchase(w, Len(w) \div 2) : w \in SeqsUpTo(DedupItems, MaxLen)} \cup
    {ModernPurchase(w, Len(w)) : w \in SeqsUpTo(ExpiryItems, MaxExpiryLen)} \cup
    {Put(ModernPurchase(<<Item("T1", ms100)>>, 1), "latest_receipt_info", [other |-> "none"])} \cup
    {[receipt |-> LegacyReceipt],
     [receipt |-> Put(LegacyReceipt, "expires_date_ms", ms200)],
     [receipt |-> LegacyReceipt, expires_date_ms |-> ms200]} \cup
    {Null, [latest_receipt_info |-> [array |-> <<>>]]}

OptionInputs == {Null, [ignoreExpired |-> TRUE], [ignoreExpired |-> FALSE]}

\* ------------------------------------------------------------------------
\* Actions of getPurchaseData

\* lines 185-197 and 227-236: the call up to the loop, or to the return when
\* there is no loop
getPurchaseData ==
    /\ gpc = "idle"
    /\ IF IsNull(purchase) \/ ~Has(purchase, "receipt")
       THEN /\ gpc' = "returnedNull"
            /\ UNCHANGED <<list, data, from>>
       ELSE IF Has(purchase.receipt, "in_app")
       THEN /\ gpc' = "loop"
            /\ list' = workingList(purchase)
            /\ UNCHANGED <<data, from>>
       ELSE /\ gpc' = "returned"
            /\ data' = <<recordOf(purchase.receipt, purchase.receipt,
                                  getSubscriptionExpireDate(purchase))>>
            /\ UNCHANGED <<list, from>>
    /\ UNCHANGED <<purchase, options, i, tids, now>>
    /\ UNCHANGED <<vvars, cvars>>

\* lines 199-223 for the item at index i, the clock reading t
loopBody(t) ==
    LET item == list[i + 1]
        tid == Field(item, "original_transaction_id")
        pdate == parseIntField(item, "purchase_date_ms")
        exp == getSubscriptionExpireDate(item)
        index == slotFor(tids, tid, pdate, data)
    IN IF isExpired(options, exp, t)
       THEN UNCHANGED <<tids, data, from>>
       ELSE /\ tids' = Put(tids, tid, mapEntry(tids, tid, pdate, data))
            /\ data' = WriteAt(data, index, recordOf(purchase.receipt, item, exp))
            /\ from' = [k \in DOMAIN WriteAt(data, index, Hole) |->
                          IF k = index + 1 THEN i + 1
                          ELSE IF k <= Len(from) THEN from[k] ELSE 0]

\* one iteration of the loop of lines 198-224
Iterate ==
    /\ gpc = "loop"
    /\ i < Len(list)
    /\ IF readsClock(options, getSubscriptionExpireDate(list[i + 1]))
       THEN \E t \in Times : t >= now /\ now' = t /\ loopBody(t)
       ELSE now' = now /\ loopBody(now)
    /\ i' = i + 1
    /\ UNCHANGED <<list, purchase, options, gpc>>
    /\ UNCHANGED <<vvars, cvars>>

\* line 225
Return ==
    /\ gpc = "loop"
    /\ i = Len(list)
    /\ gpc' = "returned"
    /\ UNCHANGED <<list, purchase, options, i, tids, data, from, now>>
    /\ UNCHANGED <<vvars, cvars>>

PDInit ==
    /\ pc = "idle"
    /\ config = Null
    /\ envPassword = ""
    /\ args = Null
    /\ content = Null
    /\ requests = <<>>
    /\ responses = <<>>
    /\ validatedData = Null
    /\ isValid = FALSE
    /\ cbCalls = <<>>
    /\ purchase \in Purchases
    /\ options \in OptionInputs
    /\ now \in {t \in Times : \A u \in Times : t <= u}
    /\ list = <<>>
    /\ i = 0
    /\ tids = <<>>
    /\ data = <<>>
    /\ from = <<>>
    /\ gpc = "idle"
    /\ calls = <<>>
    /\ cells = <<>>

PDNext == getPurchaseData \/ Iterate \/ Return

SpecPD == PDInit /\ [][PDNext]_vars

\* ------------------------------------------------------------------------
\* Concurrent validatePurchase calls

\* number of calls in flight together
NumCalls == 2

CallIds == 1..NumCalls

\* Variant of closureOf: the variables are module-level, one set for all calls
MutClosureOf(c) == 1

\* lines 79-82: status, validatedData, isValid and content are declared with
\* var inside validatePurchase, so every call has a closure of its own
closureOf(c) == c

\* the receipt blob of call c
ReceiptOf(c) == <<"receipt", c>>

\* what the endpoints answer to the requests of call c
AnswerReceipts(c) ==
    { [bundle_id |-> <<"app", c>>, in_app |-> <<>>],
      [bundle_id |-> <<"app", c>>, in_app |-> <<InAppItem>>] }

Answers(c, endpoint) ==
    {[error |-> TransportError, data |-> Null]}
    \cup {[error |-> Null, data |-> [status |-> st, environment |-> endpoint]] :
             st \in {21007, 21003}}
    \cup {[error |-> Null,
           data |-> [status |-> 0, receipt |-> r, environment |-> endpoint]] :
             r \in AnswerReceipts(c)}

\* the end of a call: done ran
ended(r, iv) ==
    [pc |-> IF r.thrown THEN "thrown" ELSE "done",
     validatedData |-> r.data, isValid |-> iv, sends |-> <<>>, calls |-> r.calls]

\* the callback raised
raised(r) ==
    [pc |-> "thrown", validatedData |-> r.validatedData, isValid |-> r.isValid,
     sends |-> <<>>, calls |-> <<>>]

\* lines 98-140: everything that runs when the Production request is answered:
\* the position of the call afterwards, its closure variables, the requests
\* it sends and the cb invocations it makes
prodOutcome(error, d, vd, iv, body) ==
    LET r == tryProdCallback(error, d, vd, iv) IN
    IF r.out = "throw" THEN raised(r)
    ELSE IF series(1, r.err) = "done" THEN ended(done(r.err, r.validatedData), r.isValid)
    ELSE IF r.isValid THEN ended(done(Null, r.validatedData), r.isValid)
    ELSE [pc |-> "trySandbox", validatedData |-> r.validatedData,
          isValid |-> r.isValid,
          sends |-> <<[url |-> sandboxPath, body |-> body]>>, calls |-> <<>>]

\* lines 141-176: everything that runs when the Sandbox request is answered
sandboxOutcome(error, d, vd, iv) ==
    LET r == trySandboxCallback(error, d, vd, iv) IN
    IF r.out = "throw" THEN raised(r)
    ELSE ended(done(r.err, r.validatedData), r.isValid)

\* lines 76-98: call c starts
CallValidatePurchase(c, secret) ==
    /\ calls[c].pc = "idle"
    /\ LET body == buildContent(secret, ReceiptOf(c)) IN
       /\ cells' = [cells EXCEPT ![closureOf(c)] =
                       [content |-> body, validatedData |-> Null, isValid |-> FALSE]]
       /\ calls' = [calls EXCEPT ![c] =
                       [@ EXCEPT !.pc = "tryProd",
                                 !.args = [secret |-> secret, receipt |-> ReceiptOf(c)],
                                 !.requests = <<[url |-> prodPath, body |-> body]>>]]
    /\ UNCHANGED <<vvars, gvars>>

\* the state after an answer to call c with outcome o
Answered(c, url, a, o) ==
    /\ cells' = [cells EXCEPT ![closureOf(c)] =
                    [@ EXCEPT !.validatedData = o.validatedData,
                              !.isValid = o.isValid]]
    /\ calls' = [calls EXCEPT ![c] =
                    [@ EXCEPT !.pc = o.pc,
                              !.requests = @ \o o.sends,
                              !.responses = Append(@, [url |-> url, error |-> a.error,
                                                       data |-> a.data]),
                              !.cbCalls = @ \o o.calls]]
    /\ UNCHANGED <<vvars, gvars>>

\* the transport answers the Production request of call c
CallProdResponse(c, a) ==
    /\ calls[c].pc = "tryProd"
    /\ LET cell == cells[closureOf(c)]
       IN Answered(c, prodPath, a,
                   prodOutcome(a.error, a.data, cell.validatedData, cell.isValid,
                               cell.content))

\* the transport answers the Sandbox request of call c
CallSandboxResponse(c, a) ==
    /\ calls[c].pc = "trySandbox"
    /\ LET cell == cells[closureOf(c)]
       IN Answered(c, sandboxPath, a,
                   sandboxOutcome(a.error, a.data, cell.validatedData, cell.isValid))

CCInit ==
    /\ pc = "idle"
    /\ config \in {Null, [applePassword |-> "configured"]}
    /\ envPassword = ""
    /\ args = Null
    /\ content = Null
    /\ requests = <<>>
    /\ responses = <<>>
    /\ validatedData = Null
    /\ isValid = FALSE
    /\ cbCalls = <<>>
    /\ GInit
    /\ calls = [c \in CallIds |->
                   [pc |-> "idle", args |-> Null, requests |-> <<>>,
                    responses |-> <<>>, cbCalls |-> <<>>]]
    /\ cells = [c \in CallIds |->
                   [content |-> Null, validatedData |-> Null, isValid |-> FALSE]]

CCNext ==
    \/ \E c \in CallIds, secret \in Secrets : CallValidatePurchase(c, secret)
    \/ \E c \in CallIds : \E a \in Answers(c, "Production") : CallProdResponse(c, a)
    \/ \E c \in CallIds : \E a \in Answers(c, "Sandbox") : CallSandboxResponse(c, a)

SpecCC == CCInit /\ [][CCNext]_vars

\* ------------------------------------------------------------------------
\* Properties of validatePurchase

Terminated == pc \in {"done", "thrown"}

SandboxRequests == {k \in DOMAIN requests : requests[k].url = sandboxPath}

\* the response r is an answer without transport error whose status is in S
AnsweredIn(r, S) ==
    /\ IsNull(r.error)
    /\ ~IsNull(r.data)
    /\ Has(r.data, "status")
    /\ r.data.status \in S

\* the ErrorTable message of a status, "Unknown" for a status not in it
TableMessage(st) == IF st \in DOMAIN errorMap THEN errorMap[st] ELSE "Unknown"

LastResponse == responses[Len(responses)]

\* C1: a Sandbox request is sent if and only if the Production request was
\* answered without transport error with status 21007 or 21002; then exactly
\* one is sent, and after every other Production outcome none is.
C1_SandboxIffWrongEnvironment ==
    /\ Len(responses) = 0 => SandboxRequests = {}
    /\ Len(responses) >= 1 =>
         IF AnsweredIn(responses[1], {21007, 21002})
         THEN Cardinality(SandboxRequests) = 1
         ELSE SandboxRequests = {}

C1_Witness ==
    /\ Len(responses) >= 1
    /\ AnsweredIn(responses[1], {21002})
    /\ Cardinality(SandboxRequests) = 1

\* C2: when the caller is handed a null error, the payload is the response of
\* the endpoint that answered status 0 (with the service tag written on it):
\* the Production response when Production answered 0, and then no Sandbox
\* request was ever sent; the Sandbox response when Production answered 21002
\* or 21007 and Sandbox answered 0.
C2_SuccessPayload ==
    /\ (Len(responses) >= 1 /\ AnsweredIn(responses[1], {0})) =>
           /\ SandboxRequests = {}
           /\ Len(responses) = 1
    /\ \A k \in DOMAIN cbCalls : IsNull(cbCalls[k].error) =>
           /\ AnsweredIn(LastResponse, {0})
           /\ cbCalls[k].data = Put(LastResponse.data, "service", APPLE)
           /\ IF AnsweredIn(responses[1], {0})
              THEN cbCalls[k].data.environment = "Production"
              ELSE /\ AnsweredIn(responses[1], {21002, 21007})
                   /\ Len(responses) = 2
                   /\ cbCalls[k].data.environment = "Sandbox"

C2_Witness ==
    /\ Len(cbCalls) = 1
    /\ IsNull(cbCalls[1].error)
    /\ Len(responses) = 2
    /\ AnsweredIn(responses[1], {21002})
    /\ cbCalls[1].data.environment = "Sandbox"

\* the call ended on a status-0 answer whose receipt has an in_app list that
\* is present and empty
EndedOnEmptyPurchase ==
    /\ Terminated
    /\ AnsweredIn(LastResponse, {0})
    /\ Has(LastResponse.data, "receipt")
    /\ Has(LastResponse.data.receipt, "in_app")
    /\ LastResponse.data.receipt.in_app = <<>>

\* C3: a final status-0 answer with a present, empty in_app list gives the
\* caller a non-null error and a result with status 2 and the message
\* 'The receipt is valid, but purchased nothing.', from either endpoint.
C3_EmptyPurchaseIsError ==
    EndedOnEmptyPurchase =>
        /\ Len(cbCalls) = 1
        /\ ~IsNull(cbCalls[1].error)
        /\ cbCalls[1].data.status = 2
        /\ cbCalls[1].data.message = "The receipt is valid, but purchased nothing."

C3_Witness ==
    /\ EndedOnEmptyPurchase
    /\ Len(responses) = 2
    /\ Len(cbCalls) = 1

\* the answer that decided a failed call by its status: a Production status
\* that is nonzero and not a wrong-environment code, or a nonzero Sandbox status
DecidedByStatus ==
    /\ Terminated
    /\ IsNull(LastResponse.error)
    /\ ~IsNull(LastResponse.data)
    /\ Has(LastResponse.data, "status")
    /\ LastResponse.data.status # 0
    /\ Len(responses) = 1 => LastResponse.data.status \notin {21007, 21002}

\* C4: every nonzero Production status outside {21007, 21002} and every nonzero
\* Sandbox status ends the call with a non-null error whose message is the
\* ErrorTable message of that status and a result carrying that status.
C4_NonzeroStatusFails ==
    DecidedByStatus =>
        /\ Len(cbCalls) = 1
        /\ ~IsNull(cbCalls[1].error)
        /\ cbCalls[1].error.message = TableMessage(LastResponse.data.status)
        /\ cbCalls[1].data.status = LastResponse.data.status

\* C5: every invocation of the callback with a non-null error carries a result
\* that has a status, a message and the service tag.
C5_FailureResultComplete ==
    \A k \in DOMAIN cbCalls : ~IsNull(cbCalls[k].error) =>
        /\ ~IsNull(cbCalls[k].data)
        /\ Has(cbCalls[k].data, "status")
        /\ Has(cbCalls[k].data, "message")
        /\ Has(cbCalls[k].data, "service")
        /\ cbCalls[k].data.service = APPLE

\* C6 as stated: a transport failure on either endpoint ends the call at once
\* with the transport error and a result of status 1 and message 'Unknown',
\* and a failed Production request is not followed by a Sandbox request.
C6_TransportFailureIsStatusOne ==
    \A k \in DOMAIN responses : ~IsNull(responses[k].error) =>
        /\ k = Len(responses)
        /\ Len(requests) = k
        /\ pc = "done"
        /\ cbCalls = <<[error |-> responses[k].error,
                        data |-> [status |-> 1, message |-> "Unknown"]]>>

\* C6 amended: the result has status 1 and message 'Unknown' when the failed
\* request delivered no body; when it delivered one, the result has the status
\* of that body (none when the body has none) and the ErrorTable message of
\* that status, 'Unknown' when there is none.
C6_TransportFailure ==
    \A k \in DOMAIN responses : ~IsNull(responses[k].error) =>
        /\ k = Len(responses)
        /\ Len(requests) = k
        /\ pc = "done"
        /\ Len(cbCalls) = 1
        /\ cbCalls[1].error = responses[k].error
        /\ LET body == responses[k].data
               res == cbCalls[1].data
           IN /\ DOMAIN res \subseteq {"status", "message"}
              /\ IF IsNull(body)
                 THEN res = [status |-> 1, message |-> "Unknown"]
                 ELSE IF Has(body, "status")
                 THEN /\ Has(res, "status")
                      /\ res.status = body.status
                      /\ res.message = TableMessage(body.status)
                 ELSE /\ ~Has(res, "status")
                      /\ res.message = "Unknown"

C6_Witness ==
    /\ Len(responses) = 2
    /\ ~IsNull(responses[2].error)
    /\ ~IsNull(responses[2].data)
    /\ Has(responses[2].data, "status")
    /\ responses[2].data.status = 21003
    /\ Len(cbCalls) = 1

\* C7: the requests sent are [Production] or [Production, Sandbox]; at most
\* one request is unanswered at any time, so the Sandbox request follows the
\* Production response; once the Sandbox request is answered the call has
\* ended and sends nothing more.
C7_RequestSequence ==
    /\ \/ requests = <<>>
       \/ Len(requests) = 1 /\ requests[1].url = prodPath
       \/ Len(requests) = 2 /\ requests[1].url = prodPath /\ requests[2].url = sandboxPath
    /\ Len(responses) <= Len(requests)
    /\ Len(requests) <= Len(responses) + 1
    /\ \A k \in DOMAIN responses : responses[k].url = requests[k].url
    /\ Len(responses) = 2 => Terminated
    /\ Terminated => Len(requests) = Len(responses)

C7_Witness ==
    /\ Len(requests) = 2
    /\ Len(responses) = 2
    /\ Terminated

\* ------------------------------------------------------------------------
\* Properties of getPurchaseData

\* the call took the modern path and has returned
ReturnedModern ==
    /\ gpc = "returned"
    /\ Has(purchase.receipt, "in_app")

\* the original_transaction_id of the item whose record is in slot k
IdOfSlot(k) == list[from[k]].original_transaction_id

IgnoreExpired ==
    ~IsNull(options) /\ Has(options, "ignoreExpired") /\ options.ignoreExpired

Positions(tid) == {k \in DOMAIN list : list[k].original_transaction_id = tid}

Ids == {list[k].original_transaction_id : k \in DOMAIN list}

\* C8: the sequence returned for a modern payload holds at most one record
\* per distinct original_transaction_id.
C8_OneRecordPerTransaction ==
    ReturnedModern =>
        \A a, b \in DOMAIN data : a # b => IdOfSlot(a) # IdOfSlot(b)

\* every id of the working list occurs with strictly increasing
\* purchase_date_ms, and some id occurs more than once
AllIncreasing ==
    /\ \A a, b \in DOMAIN list :
          (a < b /\ list[a].original_transaction_id = list[b].original_transaction_id)
              => LessThan(parseInt(list[a].purchase_date_ms),
                          parseInt(list[b].purchase_date_ms))
    /\ \E tid \in Ids : Cardinality(Positions(tid)) >= 2

First(tid) == CHOOSE k \in Positions(tid) : \A m \in Positions(tid) : k <= m

Last(tid) == CHOOSE k \in Positions(tid) : \A m \in Positions(tid) : m <= k

\* the slot (1-based) at which tid first appears when every id has one slot:
\* the ids are in the order of their first occurrence
FirstSlot(tid) == 1 + Cardinality({u \in Ids : First(u) < First(tid)})

\* C9: when the occurrences of an id come with increasing purchase_date_ms
\* (no item being skipped), the slot at which the id first appeared holds the
\* record of its last, latest occurrence, and no other slot holds a record of
\* that id.
C9_LatestWinsInFirstSlot ==
    (ReturnedModern /\ ~IgnoreExpired /\ AllIncreasing) =>
        \A tid \in Ids :
            /\ FirstSlot(tid) \in DOMAIN data
            /\ from[FirstSlot(tid)] = Last(tid)
            /\ \A k \in DOMAIN data : IdOfSlot(k) = tid => k = FirstSlot(tid)

\* the step is an iteration of the loop
IsIteration == gpc = "loop" /\ i' = i + 1

\* the iteration skipped its item: no record, no change of map or output
Skipped == tids' = tids /\ data' = data /\ from' = from

\* the iteration recorded its item
Recorded == \E k \in DOMAIN from' : from'[k] = i + 1 /\ (k \notin DOMAIN from \/ from[k] # i + 1)

ItemExp == getSubscriptionExpireDate(list[i + 1])

\* C10 as stated: an iteration skips its item exactly when ignoreExpired is
\* set, the item's expirationDate is > 0 and the clock reading minus it is
\* >= 0; otherwise the item is recorded.
C10_SkipWhenPositiveAndPast ==
    [][IsIteration =>
         IF IgnoreExpired /\ ~IsNaN(ItemExp) /\ ItemExp.v > 0 /\ now' - ItemExp.v >= 0
         THEN Skipped
         ELSE Recorded /\ ~Skipped]_vars

\* C10 amended: an iteration skips its item exactly when ignoreExpired is set,
\* the item's expirationDate is a number other than 0 (negative ones included)
\* and the clock reading minus it is >= 0; a skipped item changes neither the
\* map nor the output; any other item is recorded, so with ignoreExpired set
\* no record is written whose expirationDate is nonzero and <= the clock
\* reading taken for its item.
C10_SkipWhenNonzeroAndPast ==
    [][IsIteration =>
         IF IgnoreExpired /\ ~IsNaN(ItemExp) /\ ItemExp.v # 0 /\ now' - ItemExp.v >= 0
         THEN Skipped
         ELSE /\ Recorded
              /\ ~Skipped
              /\ \A k \in DOMAIN from' : from'[k] = i + 1 =>
                    /\ data'[k].expirationDate = ItemExp
                    /\ IgnoreExpired =>
                          ~(Truthy(data'[k].expirationDate)
                            /\ data'[k].expirationDate.v <= now')]_vars

\* the second item, whose expiry is at the clock's edge, was skipped with a
\* non-empty map and output
C10_Witness ==
    /\ gpc = "loop"
    /\ i = 2
    /\ IgnoreExpired
    /\ getSubscriptionExpireDate(list[2]) = Num(200)
    /\ now = 200
    /\ Len(data) = 1
    /\ from = <<1>>

\* the call took the legacy path (a receipt without in_app) and has returned
ReturnedLegacy ==
    /\ gpc = "returned"
    /\ ~Has(purchase.receipt, "in_app")

\* the expires-date fallback rule applied to the fields of obj
FallbackExpiry(obj) ==
    IF Has(obj, "expires_date_ms") THEN parseInt(obj.expires_date_ms)
    ELSE IF Has(obj, "expires_date") THEN parseInt(obj.expires_date)
    ELSE Num(0)

\* C11: a legacy payload gives exactly one record, whatever the options, whose
\* bundleId, transactionId, productId, purchaseDate and integer quantity are
\* the receipt's fields and whose expirationDate follows the fallback rule
\* applied to those same receipt fields.
C11_LegacyRecord ==
    ReturnedLegacy =>
        /\ Len(data) = 1
        /\ data[1].bundleId = purchase.receipt.bundle_id
        /\ data[1].transactionId = purchase.receipt.transaction_id
        /\ data[1].productId = purchase.receipt.product_id
        /\ data[1].purchaseDate = purchase.receipt.original_purchase_date_ms
        /\ data[1].quantity = Num(2)
        /\ data[1].expirationDate = FallbackExpiry(purchase.receipt)

\* C12: every result delivered with a nonzero status has as message the
\* ErrorTable message of that status, "Unknown" for a status the table lacks,
\* whichever path produced the result.
C12_MessageIsTableLookup ==
    \A k \in DOMAIN cbCalls :
        (/\ ~IsNull(cbCalls[k].data)
         /\ Has(cbCalls[k].data, "status")
         /\ cbCalls[k].data.status # 0) =>
            /\ Has(cbCalls[k].data, "message")
            /\ cbCalls[k].data.message = TableMessage(cbCalls[k].data.status)

\* the step is the start of the validatePurchase call
IsCall == pc = "idle" /\ pc' = "tryProd"

\* a configured shared secret exists in c
ConfiguredSecret(c) ==
    /\ ~IsNull(c)
    /\ Has(c, "applePassword")
    /\ c.applePassword # ""

\* C13: the call resolves the password once, before the Production request:
\* the per-call secret if given, else the configured shared secret, else no
\* password; and the body of the Sandbox request is the body of the Production
\* request of the same call, whatever happened to the configuration meanwhile.
C13_PasswordResolvedOnce ==
    [][/\ IsCall =>
            LET body == requests'[1].body IN
            /\ body["receipt-data"] = args'.receipt
            /\ IF args'.secret # ""
               THEN Has(body, "password") /\ body.password = args'.secret
               ELSE IF ConfiguredSecret(config)
               THEN Has(body, "password") /\ body.password = config.applePassword
               ELSE ~Has(body, "password")
       /\ Len(requests') = 2 => requests'[2].body = requests'[1].body]_vars

\* a Sandbox request was sent after the configuration had been changed:
\* the call used the configured secret, which is no longer configured
C13_Witness ==
    /\ Len(requests) = 2
    /\ args.secret = ""
    /\ Has(requests[2].body, "password")
    /\ requests[2].body.password = "configured"
    /\ ~ConfiguredSecret(config)

\* the answer is one of the outcomes of an endpoint: a transport failure, or
\* a body with an integer status (with or without a receipt object)
IsOutcome(r) == ~IsNull(r.error) \/ (~IsNull(r.data) /\ Has(r.data, "status"))

\* C14: whatever outcome the endpoints answer with, the call does not raise,
\* and once the transport has answered it has ended with exactly one
\* invocation of the caller's callback.
C14_ExactlyOneResult ==
    (\A k \in DOMAIN responses : IsOutcome(responses[k])) =>
        /\ pc # "thrown"
        /\ Len(cbCalls) <= 1
        /\ (Len(responses) = Len(requests) /\ requests # <<>>) =>
               pc = "done" /\ Len(cbCalls) = 1

\* the shared secret in c is the value of the environment variable
SecretFromEnv(c) == ConfiguredSecret(c) /\ c.applePassword = "fromEnv"

\* C18: the environment value becomes the shared secret only in a step taken
\* when no configured applePassword exists (and the variable is set); a step
\* taken while a secret configured through readConfig exists never puts the
\* environment value in its place; and a call without a per-call secret sends
\* the shared secret configured at that moment.
C18_EnvOnlyWithoutConfiguredSecret ==
    [][/\ (SecretFromEnv(config') /\ ~SecretFromEnv(config)) =>
              /\ ~ConfiguredSecret(config)
              /\ envPassword = "fromEnv"
              /\ \A k \in DOMAIN config' \ {"applePassword"} :
                     ~IsNull(config) /\ Has(config, k) /\ config[k] = config'[k]
       /\ (ConfiguredSecret(config) /\ config.applePassword = "configured") =>
              ~SecretFromEnv(config')
       /\ (IsCall /\ args'.secret = "" /\ ConfiguredSecret(config)) =>
              /\ Has(requests'[1].body, "password")
              /\ requests'[1].body.password = config.applePassword]_vars

\* setup stored the environment value next to another apple setting, and a
\* call without a per-call secret sent it
C18_Witness ==
    /\ config = [appleOther |-> "x", applePassword |-> "fromEnv"]
    /\ pc = "tryProd"
    /\ args.secret = ""
    /\ requests[1].body.password = "fromEnv"

\* what a call that runs alone hands its caller after the answers resps
ResultAlone(resps) ==
    IF resps = <<>> THEN <<>>
    ELSE LET first == prodOutcome(resps[1].error, resps[1].data, Null, FALSE, Null)
         IN IF Len(resps) = 1 THEN first.calls
            ELSE sandboxOutcome(resps[2].error, resps[2].data,
                                first.validatedData, first.isValid).calls

\* C15: with several calls in flight and their callbacks interleaved in any
\* order, what each call hands its caller is what it would hand over alone
\* after the answers to its own requests, every request of a call carries the
\* body built for that call, and no step of a call changes the configuration.
C15_CallsAreIndependent ==
    [][/\ config' = config
       /\ \A c \in CallIds :
             /\ calls'[c].cbCalls = ResultAlone(calls'[c].responses)
             /\ \A k \in DOMAIN calls'[c].requests :
                   /\ calls'[c].requests[k].body["receipt-data"] = ReceiptOf(c)
                   /\ calls'[c].requests[k].body = calls'[c].requests[1].body]_vars

\* both calls were in flight together, the second answered first, and both
\* have handed over a result, one from each endpoint
C15_Witness ==
    /\ \A c \in CallIds : calls[c].pc = "done" /\ Len(calls[c].cbCalls) = 1
    /\ Len(calls[1].responses) = 2
    /\ Len(calls[2].responses) = 1
    /\ IsNull(calls[1].cbCalls[1].error)
    /\ IsNull(calls[2].cbCalls[1].error)


\* the item of the iteration, its id and its purchase_date_ms
ItemId == Field(list[i + 1], "original_transaction_id")

ItemDate == parseIntField(list[i + 1], "purchase_date_ms")

\* the id is in the map with a recorded time >= the item's purchase_date_ms
KnownNewerOrEqual ==
    /\ ItemId \in DOMAIN tids
    /\ ~IsNaN(tids[ItemId].time)
    /\ ~IsNaN(ItemDate)
    /\ tids[ItemId].time.v >= ItemDate.v

\* the record of the item went to a new slot at the end of the output
Appended ==
    /\ Len(data') = Len(data) + 1
    /\ from'[Len(data')] = i + 1
    /\ \A k \in DOMAIN data : data'[k] = data[k] /\ from'[k] = from[k]

\* C16: an iteration whose item's id is in the map with a recorded time
\* greater than or equal to the item's purchase_date_ms appends the item as a
\* new record and leaves the map entry unchanged; so every recording
\* iteration leaves, as the recorded time of the item's id, the larger of the
\* time recorded before and the item's purchase_date_ms (the maximum over the
\* non-skipped items of that id so far), and touches no other entry.
C16_MapKeepsLatest ==
    [][(IsIteration /\ ~Skipped /\ ~IsNaN(ItemDate)) =>
         /\ KnownNewerOrEqual => (Appended /\ tids'[ItemId] = tids[ItemId])
         /\ tids'[ItemId].time =
               (IF KnownNewerOrEqual THEN tids[ItemId].time ELSE ItemDate)
         /\ \A u \in DOMAIN tids : u # ItemId => tids'[u] = tids[u]]_vars

\* C17: a replace-in-place updates only the recorded time: an iteration
\* leaves the slotIndex of every id already in the map as it was, a first
\* sight records the new slot, and after every iteration the slotIndex of
\* each id of the map is a slot of the output whose record belongs to that
\* id.
C17_SlotIndexIsFirstSlot ==
    [][(IsIteration /\ ~Skipped) =>
         /\ \A u \in DOMAIN tids : tids'[u].index = tids[u].index
         /\ ItemId \notin DOMAIN tids => tids'[ItemId].index = Len(data)
         /\ \A u \in DOMAIN tids' :
               /\ tids'[u].index + 1 \in DOMAIN data'
               /\ list[from'[tids'[u].index + 1]].original_transaction_id = u]_vars

\* the ids that have a record in the output
RecordedIds(f) == {list[f[k]].original_transaction_id : k \in DOMAIN f}

\* C19: every id that occurs in a non-skipped item has a record in the
\* returned sequence: an iteration that records its item leaves a record of
\* the item's id, and no iteration leaves an id that had a record without
\* one.
C19_NoIdLosesItsRecord ==
    [][IsIteration =>
         /\ ~Skipped => ItemId \in RecordedIds(from')
         /\ RecordedIds(from) \subseteq RecordedIds(from')]_vars

\* C20: after every iteration every slot of the output holds a record (the
\* write lands at a slot no further than the current length), a skipped item
\* leaves the length as it is and a recorded one adds at most one slot, so
\* the length never exceeds the number of non-skipped items processed.
C20_DenseAndBounded ==
    [][IsIteration =>
         /\ \A k \in DOMAIN data' : data'[k] # Hole
         /\ \A k \in DOMAIN from' : from'[k] = i + 1 => k <= Len(data) + 1
         /\ Len(data') >= Len(data)
         /\ Len(data') <= (IF Skipped THEN Len(data) ELSE Len(data) + 1)
         /\ Len(data') <= i']_vars

\* a modern call returned with ignoreExpired set: of four items the second,
\* which has no expiry, was replaced in place by the third and the fourth was
\* skipped, leaving two records and no hole
C20_Witness ==
    /\ ReturnedModern
    /\ IgnoreExpired
    /\ Len(list) = 4
    /\ ~Truthy(getSubscriptionExpireDate(list[2]))
    /\ from = <<1, 3>>
    /\ Len(data) = 2
    /\ \A k \in DOMAIN data : data[k] # Hole

====
